---- MODULE Spec2Model ----
(***************************************************************************)
(* Model of the two scripts of the repository: fantasy-v1.py (retrying,    *)
(* throttled fetch; deduplicated team list; position files and FLEX) and   *)
(* sportsradar-api.py (plain requests.get, no dedup).  One run of the      *)
(* model is one run of one script, or one call of a library function of    *)
(* it, against a remote API whose answers are chosen nondeterministically. *)
(***************************************************************************)
EXTENDS Integers, Sequences, FiniteSets, TLC

\* ---- configuration (fantasy-v1.py:15-17) --------------------------------
REQUEST_DELAY == 1
MAX_RETRIES == 3
RETRY_DELAY == 5

\* ---- bounds of the model -------------------------------------------------
MaxGames == 2
MaxTeamList == 2
MaxFilterLen == 2

V1 == "fantasy-v1"
LEGACY == "sportsradar-api"
Scripts == {V1, LEGACY}

\* ---- the remote API's data -----------------------------------------------
TeamIds == {"T1", "T2", "T3", "T4"}

\* A team object as it appears in a game of the weekly schedule.
TeamObj(t) == [id |-> t, name |-> <<"name", t>>, alias |-> <<"alias", t>>]

GameObj(i, h, a) ==
    [id |-> <<"game", i>>, scheduled |-> <<"time", i>>,
     home |-> TeamObj(h), away |-> TeamObj(a)]

\* A team never plays itself.
Sides == {hv \in TeamIds \X TeamIds : hv[1] # hv[2]}

\* Team ids are opaque labels, so the schedules are taken up to renaming: the
\* teams are numbered in the order of their first appearance (home before
\* away), i.e. a team shows up only after all teams before it in TeamOrder.
TeamOrder == <<"T1", "T2", "T3", "T4">>

SideAt(f, k) == IF k % 2 = 1 THEN f[(k + 1) \div 2][1] ELSE f[k \div 2][2]

FirstAppearanceOrdered(f, n) ==
    \A k \in 1..(2 * n) : \A m \in 2..Len(TeamOrder) :
        SideAt(f, k) = TeamOrder[m]
            => \E k2 \in 1..(k - 1) : SideAt(f, k2) = TeamOrder[m - 1]

\* Weekly schedules: up to MaxGames games; a team may show up in more than
\* one game.
Schedules ==
    UNION { { [i \in 1..n |-> GameObj(i, f[i][1], f[i][2])] :
                f \in {g \in [1..n -> Sides] : FirstAppearanceOrdered(g, n)} }
            : n \in 0..MaxGames }

\* Positions of the players of each team's roster, in roster order.
RosterPositions(t) ==
    CASE t = "T1" -> <<"WR", "QB", "K", "RB", "WR", "TE">>
      [] t = "T2" -> <<"QB", "RB">>
      [] t = "T3" -> <<"TE", "RB", "qb", "RB">>
      [] OTHER    -> <<"K">>

\* A player object of a roster response: the nine fields the code copies and
\* one ("status") it does not.
RawPlayer(t, k) ==
    [kind |-> "dict", id |-> <<t, k>>, name |-> <<"player", t, k>>,
     position |-> RosterPositions(t)[k], jersey |-> k, height |-> 70 + k,
     weight |-> 200 + k, birth_date |-> <<"born", k>>, experience |-> k,
     college |-> <<"college", t>>, status |-> "ACT"]

GoodRoster(t) == [k \in 1..Len(RosterPositions(t)) |-> RawPlayer(t, k)]

\* A malformed roster: a null where a player object should be, after the
\* first player.
NullEntry == [kind |-> "null"]

MalformedRoster(t) ==
    <<GoodRoster(t)[1], NullEntry>> \o SubSeq(GoodRoster(t), 2, Len(GoodRoster(t)))

RosterBodies == {"good", "malformed"}

RosterData(t, body) ==
    [players |-> IF body = "good" THEN GoodRoster(t) ELSE MalformedRoster(t)]

\* What the remote answers to one request: a 2xx, a 429, or anything that
\* requests surfaces as a RequestException (connection error, timeout,
\* other non-2xx through raise_for_status).
Responses == {"ok", "429", "error"}

\* Requested position lists of a pool build (the default and two others).
DefaultPositions == <<"QB", "RB", "WR", "TE">>
PositionArgs == {DefaultPositions, <<"WR", "QB">>, <<>>}

Range(s) == {s[i] : i \in DOMAIN s}

VARIABLES
    script,       \* which script runs
    entry,        \* the function the run calls
    pc,           \* position of the caller
    url,          \* what the current fetch asks for
    fstate,       \* Idle, Attempting, Waiting, Done, Returned, Failed
    attempt,      \* loop variable of make_request_with_retry (0-based)
    resps,        \* responses received by the current fetch, in order
    slept,        \* seconds of RETRY_DELAY sleeps of the current fetch
    ferr,         \* the exception the current fetch raised
    throttled,    \* no 2xx yet, or REQUEST_DELAY slept since the last 2xx
    positions,    \* positions argument of the pool build
    games,        \* the weekly schedule's games
    teams,        \* teams_playing["teams"]
    ti,           \* index of the team being processed
    pool,         \* player_pool
    failed,       \* indexes of the teams whose try block raised
    fetched,      \* team ids get_roster was called with, in order
    result,       \* outcome of the call
    files,        \* the four position files
    flex,         \* what get_flex_eligible returned
    filterArg,    \* positions argument of get_players_by_position_filter
    filtered,     \* what get_players_by_position_filter returned
    teams_data,   \* teams of the teams.json response
    abbreviation, \* argument of get_roster_by_abbreviation
    team_id       \* what get_team_id_by_abbreviation returned

fetchVars == <<url, fstate, attempt, resps, slept, ferr, throttled>>
poolVars == <<positions, games, teams, ti, pool, failed>>
fileVars == <<files, flex, filterArg, filtered>>
aliasVars == <<teams_data, abbreviation, team_id>>
vars == <<script, entry, pc, fetchVars, poolVars, fetched, result, fileVars, aliasVars>>

\* ---- make_request_with_retry (fantasy-v1.py:19-39) ------------------------
\* `for attempt in range(max_retries)` goes on after iteration `a`.
MutLoopContinues(a) == a + 1 <= MAX_RETRIES

LoopContinues(a) == a + 1 < MAX_RETRIES

\* The except branch re-raises on the last attempt.
IsLastAttempt(a) == a = MAX_RETRIES - 1

MutOnResponse(r, a) ==
    CASE r = "429" -> [fstate |-> "Waiting", ferr |-> "none"]
      [] r = "ok"  -> [fstate |-> "Done", ferr |-> "none"]
      [] OTHER     -> [fstate |-> "Waiting", ferr |-> "none"]

\* What iteration `a` does with response r: a 429 sleeps and continues, a 2xx
\* returns, a RequestException is re-raised on the last attempt and sleeps
\* otherwise.
OnResponse(r, a) ==
    CASE r = "429" -> [fstate |-> "Waiting", ferr |-> "none"]
      [] r = "ok"  -> [fstate |-> "Done", ferr |-> "none"]
      [] OTHER     -> IF IsLastAttempt(a)
                      THEN [fstate |-> "Failed", ferr |-> "TransportError"]
                      ELSE [fstate |-> "Waiting", ferr |-> "none"]

\* sportsradar-api.py: requests.get, raise_for_status, return response.json().
LegacyOnResponse(r) ==
    IF r = "ok" THEN [fstate |-> "Returned", ferr |-> "none"]
                ELSE [fstate |-> "Failed", ferr |-> "TransportError"]

\* A wrapper (get_teams, get_roster, get_full_schedule, get_weekly_schedule)
\* starts its fetch.
StartFetch(u) ==
    /\ url' = u
    /\ fstate' = "Attempting"
    /\ attempt' = 0
    /\ resps' = <<>>
    /\ slept' = 0
    /\ ferr' = "none"
    /\ UNCHANGED throttled

\* The wrapper's call is over (it returned, or its exception was handled):
\* nothing is left of its frame.
EndFetch ==
    /\ url' = "none"
    /\ fstate' = "Idle"
    /\ attempt' = 0
    /\ resps' = <<>>
    /\ slept' = 0
    /\ ferr' = "none"
    /\ UNCHANGED throttled

\* requests.get of one iteration of the retry loop, and the branch taken.
Attempt ==
    /\ script = V1
    /\ fstate = "Attempting"
    /\ \E r \in Responses :
          /\ resps' = Append(resps, r)
          /\ fstate' = OnResponse(r, attempt).fstate
          /\ ferr' = OnResponse(r, attempt).ferr
          /\ throttled' = IF r = "ok" THEN FALSE ELSE throttled
    /\ UNCHANGED <<script, entry, pc, url, attempt, slept, poolVars, fetched,
                   result, fileVars, aliasVars>>

\* time.sleep(RETRY_DELAY), then the next iteration, or the loop ends and
\* "Max retries exceeded" is raised.
Cooldown ==
    /\ script = V1
    /\ fstate = "Waiting"
    /\ slept' = slept + RETRY_DELAY
    /\ attempt' = attempt + 1
    /\ IF LoopContinues(attempt)
       THEN fstate' = "Attempting" /\ ferr' = "none"
       ELSE fstate' = "Failed" /\ ferr' = "RetryExhausted"
    /\ UNCHANGED <<script, entry, pc, url, resps, throttled, poolVars, fetched,
                   result, fileVars, aliasVars>>

\* time.sleep(REQUEST_DELAY) of the wrapper, then return response.json().
Throttle ==
    /\ script = V1
    /\ fstate = "Done"
    /\ fstate' = "Returned"
    /\ throttled' = TRUE
    /\ UNCHANGED <<script, entry, pc, url, attempt, resps, slept, ferr, poolVars,
                   fetched, result, fileVars, aliasVars>>

\* The one request of a sportsradar-api.py wrapper.
LegacyRequest ==
    /\ script = LEGACY
    /\ fstate = "Attempting"
    /\ \E r \in Responses :
          /\ resps' = Append(resps, r)
          /\ fstate' = LegacyOnResponse(r).fstate
          /\ ferr' = LegacyOnResponse(r).ferr
          /\ throttled' = IF r = "ok" THEN FALSE ELSE throttled
    /\ UNCHANGED <<script, entry, pc, url, attempt, slept, poolVars, fetched,
                   result, fileVars, aliasVars>>

\* ---- get_teams_playing_this_week ------------------------------------------
\* The record appended for one side of a game.
Appearance(game, side) ==
    LET team == IF side = "home" THEN game.home ELSE game.away
        opp  == IF side = "home" THEN game.away ELSE game.home
    IN [team_id |-> team.id, team_name |-> team.name, team_alias |-> team.alias,
        opponent_id |-> opp.id, opponent_name |-> opp.name,
        opponent_alias |-> opp.alias, home_away |-> side,
        game_id |-> game.id, scheduled |-> game.scheduled]

\* fantasy-v1.py:106-143: the loop over the games from game i on, with the
\* list built so far and the set unique_teams.
RECURSIVE DedupLoop(_, _, _, _)
DedupLoop(gs, i, acc, unique_teams) ==
    IF i > Len(gs) THEN acc
    ELSE LET home_team_id == gs[i].home.id
             away_team_id == gs[i].away.id
             acc1 == IF home_team_id \notin unique_teams
                     THEN Append(acc, Appearance(gs[i], "home")) ELSE acc
             u1   == unique_teams \cup {home_team_id}
             acc2 == IF away_team_id \notin u1
                     THEN Append(acc1, Appearance(gs[i], "away")) ELSE acc1
             u2   == u1 \cup {away_team_id}
         IN DedupLoop(gs, i + 1, acc2, u2)

\* sportsradar-api.py:78-106: both sides of every game, no set.
RECURSIVE PlainLoop(_, _, _)
PlainLoop(gs, i, acc) ==
    IF i > Len(gs) THEN acc
    ELSE PlainLoop(gs, i + 1,
                   Append(Append(acc, Appearance(gs[i], "home")),
                          Appearance(gs[i], "away")))

get_teams_playing_this_week(s, gs) ==
    IF s = V1 THEN DedupLoop(gs, 1, <<>>, {}) ELSE PlainLoop(gs, 1, <<>>)

\* ---- get_players_by_position (fantasy-v1.py:148-166) ----------------------
\* The dict built for a matching player.
CopyPlayer(player) ==
    [id |-> player.id, name |-> player.name, position |-> player.position,
     jersey |-> player.jersey, height |-> player.height, weight |-> player.weight,
     birth_date |-> player.birth_date, experience |-> player.experience,
     college |-> player.college]

Matches(player, position) == player.position = position

\* The loop over the roster from entry k on; player.get on an entry that is
\* no dict raises (AttributeError), and the list built so far is lost.
RECURSIVE PlayersLoop(_, _, _, _)
PlayersLoop(entries, k, position, players) ==
    IF k > Len(entries) THEN [raised |-> FALSE, players |-> players]
    ELSE IF entries[k].kind # "dict" THEN [raised |-> TRUE, players |-> <<>>]
    ELSE PlayersLoop(entries, k + 1, position,
                     IF Matches(entries[k], position)
                     THEN Append(players, CopyPlayer(entries[k])) ELSE players)

\* players.insert(0, ...) in place of players.append(...): the list comes
\* out in reverse roster order.
Mut_get_players_by_position(roster_data, position) ==
    LET got == PlayersLoop(roster_data.players, 1, position, <<>>)
    IN [raised |-> got.raised,
        players |-> [n \in 1..Len(got.players) |->
                        got.players[Len(got.players) + 1 - n]]]

get_players_by_position(roster_data, position) ==
    PlayersLoop(roster_data.players, 1, position, <<>>)

\* ---- the try block of get_fantasy_player_pool (fantasy-v1.py:195-215) -----
MutMergeTeamInfo(player, team_info) ==
    [k \in DOMAIN player \cup DOMAIN team_info |->
        IF k = "team_id" THEN team_info.opponent_id
        ELSE IF k \in DOMAIN team_info THEN team_info[k] ELSE player[k]]

\* player.update({...}): the nine fields of team_info, written over the dict.
MergeTeamInfo(player, team_info) ==
    [k \in DOMAIN player \cup DOMAIN team_info |->
        IF k \in DOMAIN team_info THEN team_info[k] ELSE player[k]]

\* The loop over the requested positions from position j on. An exception
\* leaves the loop with whatever was appended before it.
RECURSIVE PositionsLoop(_, _, _, _, _)
PositionsLoop(pl, roster_data, team_info, ps, j) ==
    IF j > Len(ps) THEN [raised |-> FALSE, pool |-> pl]
    ELSE LET got == get_players_by_position(roster_data, ps[j])
         IN IF got.raised THEN [raised |-> TRUE, pool |-> pl]
            ELSE PositionsLoop(
                    [pl EXCEPT ![ps[j]] =
                        @ \o [n \in 1..Len(got.players) |->
                                MergeTeamInfo(got.players[n], team_info)]],
                    roster_data, team_info, ps, j + 1)

MutAfterTeamFailure(i, n) == n + 1

\* except Exception: print, continue -- the loop goes to the next team.
AfterTeamFailure(i, n) == i + 1

\* ---- position files and FLEX (fantasy-v1.py:254-271, 321-352) -------------
\* get_players_by_position_filter: the loop over the positions from j on.
RECURSIVE FilterLoop(_, _, _, _)
FilterLoop(player_pool, ps, j, filtered_players) ==
    IF j > Len(ps) THEN filtered_players
    ELSE FilterLoop(player_pool, ps, j + 1,
                    IF ps[j] \in DOMAIN player_pool
                    THEN filtered_players \o player_pool[ps[j]]
                    ELSE filtered_players)

\* A `return` indented into the loop: only the first position is read.
Mut_get_players_by_position_filter(player_pool, ps) ==
    IF Len(ps) = 0 \/ ps[1] \notin DOMAIN player_pool THEN <<>>
    ELSE player_pool[ps[1]]

get_players_by_position_filter(player_pool, ps) == FilterLoop(player_pool, ps, 1, <<>>)

\* Keys of a merged player dict, in insertion order.
PlayerKeys ==
    <<"id", "name", "position", "jersey", "height", "weight", "birth_date",
      "experience", "college", "team_id", "team_name", "team_alias",
      "opponent_id", "opponent_name", "opponent_alias", "home_away", "game_id",
      "scheduled">>

\* json.dump of a list of player dicts: a list of objects, each a list of
\* key/value members in insertion order.
json_dump(players) ==
    [n \in 1..Len(players) |->
        [m \in 1..Len(PlayerKeys) |-> <<PlayerKeys[m], players[n][PlayerKeys[m]]>>]]

\* json.load: every object becomes a dict from its members.
json_load(doc) ==
    [n \in 1..Len(doc) |->
        [k \in {doc[n][m][1] : m \in 1..Len(doc[n])} |->
            doc[n][CHOOSE m \in 1..Len(doc[n]) : doc[n][m][1] = k][2]]]

\* position.lower() of the file name.
Lower(position) ==
    CASE position = "QB" -> "qb" [] position = "RB" -> "rb"
      [] position = "WR" -> "wr" [] OTHER -> "te"

FilePositions == <<"QB", "RB", "WR", "TE">>
FileNames == {Lower(FilePositions[i]) : i \in 1..Len(FilePositions)}
NoFile == [exists |-> FALSE, doc |-> <<>>]

\* save_position_files: one file per position, each the filter of the pool.
save_position_files(player_pool) ==
    [f \in FileNames |->
        LET position == CHOOSE p \in Range(FilePositions) : Lower(p) = f
        IN [exists |-> TRUE,
            doc |-> json_dump(get_players_by_position_filter(player_pool, <<position>>))]]

\* The files get_flex_eligible reads, in order.
FlexOrder == <<"rb", "wr", "te">>

\* get_flex_eligible: the loop over the files from j on; a missing file is
\* skipped with a warning.
RECURSIVE FlexLoop(_, _, _)
FlexLoop(fs, j, flex_players) ==
    IF j > Len(FlexOrder) THEN flex_players
    ELSE FlexLoop(fs, j + 1,
                  IF fs[FlexOrder[j]].exists
                  THEN flex_players \o json_load(fs[FlexOrder[j]].doc)
                  ELSE flex_players)

get_flex_eligible(fs) == FlexLoop(fs, 1, <<>>)

\* Positions arguments the filter is called with.
FilterPositions == {"RB", "WR", "K"}
FilterArgs == UNION { [1..n -> FilterPositions] : n \in 0..MaxFilterLen }

\* ---- alias lookup (fantasy-v1.py:55-72) -----------------------------------
\* Strings are sequences of characters; str.upper() maps every character.
UpperChar(c) ==
    CASE c = "n" -> "N" [] c = "e" -> "E" [] c = "k" -> "K"
      [] c = "c" -> "C" [] c = "z" -> "Z" [] OTHER -> c

Upper(s) == [i \in 1..Len(s) |-> UpperChar(s[i])]

TeamAliases == {<<"N", "E">>, <<"n", "e">>, <<"K", "C">>}
Abbreviations == {<<"N", "E">>, <<"n", "e">>, <<"N", "e">>, <<"k", "c">>, <<"Z", "Z">>}
ListedTeamIds == {"T1", "T2"}

\* Bodies of the teams.json response: up to MaxTeamList teams.
TeamLists ==
    UNION { [1..n -> [id : ListedTeamIds, alias : TeamAliases]] : n \in 0..MaxTeamList }

MutAliasMatches(alias, abbr) == alias = abbr

AliasMatches(alias, abbr) == Upper(alias) = Upper(abbr)

\* get_team_id_by_abbreviation: the loop over the teams from i on; None when
\* it ends without a match.
\* The outcome says how the function ends: it returns a value, never raises.
RECURSIVE LookupLoop(_, _, _)
LookupLoop(tl, abbr, i) ==
    IF i > Len(tl) THEN [kind |-> "return", value |-> "None"]
    ELSE IF AliasMatches(tl[i].alias, abbr) THEN [kind |-> "return", value |-> tl[i].id]
    ELSE LookupLoop(tl, abbr, i + 1)

get_team_id_by_abbreviation(tl, abbr) == LookupLoop(tl, abbr, 1)

\* `if team_id:` of get_roster_by_abbreviation.
Truthy(id) == id # "None" /\ id # ""

\* ---- the calls ------------------------------------------------------------
Init ==
    /\ script \in Scripts
    /\ entry = "none"
    /\ pc = "idle"
    /\ url = "none"
    /\ fstate = "Idle"
    /\ attempt = 0
    /\ resps = <<>>
    /\ slept = 0
    /\ ferr = "none"
    /\ throttled = TRUE
    /\ positions = <<>>
    /\ games = <<>>
    /\ teams = <<>>
    /\ ti = 1
    /\ pool = <<>>
    /\ failed = {}
    /\ fetched = <<>>
    /\ result = "none"
    /\ files = [f \in FileNames |-> NoFile]
    /\ flex = <<>>
    /\ filterArg = <<>>
    /\ filtered = <<>>
    /\ teams_data = <<>>
    /\ abbreviation = <<>>
    /\ team_id = "None"

\* The fetch of the wrapper returned its JSON to the caller.
FetchReturned == fstate = "Returned"

\* get_fantasy_player_pool(positions=ps) is called: get_teams_playing_this_week
\* calls get_weekly_schedule.
CallGetFantasyPlayerPool ==
    /\ pc = "idle"
    /\ \E ps \in PositionArgs : positions' = ps
    /\ entry' = "get_fantasy_player_pool"
    /\ pc' = "get_weekly_schedule"
    /\ StartFetch("weekly")
    /\ UNCHANGED <<script, games, teams, ti, pool, failed, fetched, result,
                   fileVars, aliasVars>>

\* The schedule arrived: the team list is built and the pool is created empty.
ResolveTeams ==
    /\ pc = "get_weekly_schedule"
    /\ FetchReturned
    /\ \E gs \in Schedules :
          /\ games' = gs
          /\ teams' = get_teams_playing_this_week(script, gs)
    /\ pool' = [p \in Range(positions) |-> <<>>]
    /\ ti' = 1
    /\ pc' = "loop"
    /\ EndFetch
    /\ UNCHANGED <<script, entry,
                   positions, failed, fetched, result, fileVars, aliasVars>>

\* The loop takes the next team and calls get_roster with its team_id.
CallGetRoster ==
    /\ pc = "loop"
    /\ ti <= Len(teams)
    /\ fetched' = Append(fetched, teams[ti].team_id)
    /\ pc' = "get_roster"
    /\ StartFetch("roster")
    /\ UNCHANGED <<script, entry, poolVars, result, fileVars, aliasVars>>

\* The roster arrived: the positions loop runs; if it raises, the except
\* branch skips the team.
ProcessRoster ==
    /\ pc = "get_roster"
    /\ entry = "get_fantasy_player_pool"
    /\ FetchReturned
    /\ \E body \in RosterBodies :
          LET out == PositionsLoop(pool, RosterData(teams[ti].team_id, body),
                                   teams[ti], positions, 1)
          IN /\ pool' = out.pool
             /\ failed' = IF out.raised THEN failed \cup {ti} ELSE failed
             /\ ti' = IF out.raised THEN AfterTeamFailure(ti, Len(teams)) ELSE ti + 1
    /\ pc' = "loop"
    /\ EndFetch
    /\ UNCHANGED <<script, entry,
                   positions, games, teams, fetched, result, fileVars, aliasVars>>

\* get_roster raised: the except branch skips the team.
SkipTeam ==
    /\ pc = "get_roster"
    /\ entry = "get_fantasy_player_pool"
    /\ fstate = "Failed"
    /\ failed' = failed \cup {ti}
    /\ ti' = AfterTeamFailure(ti, Len(teams))
    /\ pc' = "loop"
    /\ EndFetch
    /\ UNCHANGED <<script, entry,
                   positions, games, teams, pool, fetched, result, fileVars,
                   aliasVars>>

\* The loop over the teams is over: the pool is returned.
ReturnPool ==
    /\ pc = "loop"
    /\ ti > Len(teams)
    /\ result' = "pool"
    /\ pc' = "returned"
    /\ UNCHANGED <<script, entry, fetchVars, poolVars, fetched, fileVars, aliasVars>>

\* get_teams_playing_this_week called inside a try block like the one around
\* get_roster: a failed schedule fetch is printed and the build goes on with
\* no teams.
MutPropagate ==
    /\ fstate = "Failed"
    /\ ~(pc = "get_roster" /\ entry = "get_fantasy_player_pool")
    /\ pc \notin {"done", "filtered"}
    /\ EndFetch
    /\ IF pc = "get_weekly_schedule"
       THEN /\ teams' = <<>>
            /\ pool' = [p \in Range(positions) |-> <<>>]
            /\ ti' = 1
            /\ pc' = "loop"
            /\ UNCHANGED <<positions, games, failed, result>>
       ELSE /\ result' = ferr
            /\ pc' = "done"
            /\ UNCHANGED poolVars
    /\ UNCHANGED <<script, entry, fetched, fileVars, aliasVars>>

\* An exception of the fetch that no try block of the callee catches goes up
\* to the caller of the entry point.
Propagate ==
    /\ fstate = "Failed"
    /\ ~(pc = "get_roster" /\ entry = "get_fantasy_player_pool")
    /\ pc \notin {"done", "filtered"}
    /\ result' = ferr
    /\ EndFetch
    /\ pc' = "done"
    /\ UNCHANGED <<script, entry, poolVars, fetched, fileVars, aliasVars>>

\* fantasy-v1.py main: save_position_files(schedule).
SavePositionFiles ==
    /\ script = V1
    /\ pc = "returned"
    /\ files' = save_position_files(pool)
    /\ pc' = "saved"
    /\ UNCHANGED <<script, entry, fetchVars, poolVars, fetched, result, flex,
                   filterArg, filtered, aliasVars>>

\* fantasy-v1.py main: flex_players = get_flex_eligible().
GetFlexEligible ==
    /\ script = V1
    /\ pc = "saved"
    /\ flex' = get_flex_eligible(files)
    /\ pc' = "done"
    /\ UNCHANGED <<script, entry, fetchVars, poolVars, fetched, result, files,
                   filterArg, filtered, aliasVars>>

\* sportsradar-api.py main: print(json.dumps(schedule)).
PrintPool ==
    /\ script = LEGACY
    /\ pc = "returned"
    /\ pc' = "done"
    /\ UNCHANGED <<script, entry, fetchVars, poolVars, fetched, result, fileVars,
                   aliasVars>>

\* get_players_by_position_filter(player_pool, ps) on the assembled pool.
FilterCall ==
    /\ script = V1
    /\ pc = "done"
    /\ result = "pool"
    /\ \E ps \in FilterArgs :
          /\ filterArg' = ps
          /\ filtered' = get_players_by_position_filter(pool, ps)
    /\ pc' = "filtered"
    /\ UNCHANGED <<script, entry, fetchVars, poolVars, fetched, result, files,
                   flex, aliasVars>>

\* get_roster_by_abbreviation(abbr) is called: get_team_id_by_abbreviation
\* calls get_teams.
CallGetRosterByAbbreviation ==
    /\ pc = "idle"
    /\ \E abbr \in Abbreviations : abbreviation' = abbr
    /\ entry' = "get_roster_by_abbreviation"
    /\ pc' = "get_teams"
    /\ StartFetch("teams")
    /\ UNCHANGED <<script, poolVars, fetched, result, fileVars, teams_data, team_id>>

\* The team list arrived: the id is looked up, and get_roster is called with
\* it or ValueError is raised.
LookupTeam ==
    /\ pc = "get_teams"
    /\ FetchReturned
    /\ \E tl \in TeamLists :
          /\ teams_data' = tl
          /\ team_id' = get_team_id_by_abbreviation(tl, abbreviation).value
    /\ IF Truthy(team_id')
       THEN /\ fetched' = Append(fetched, team_id')
            /\ pc' = "get_roster"
            /\ StartFetch("roster")
            /\ UNCHANGED result
       ELSE /\ result' = "ValueError"
            /\ pc' = "done"
            /\ EndFetch
            /\ UNCHANGED fetched
    /\ UNCHANGED <<script, entry, poolVars, fileVars, abbreviation>>

\* get_roster returned the roster to get_roster_by_abbreviation.
ReturnRoster ==
    /\ pc = "get_roster"
    /\ entry = "get_roster_by_abbreviation"
    /\ FetchReturned
    /\ result' = "roster"
    /\ pc' = "done"
    /\ EndFetch
    /\ UNCHANGED <<script, entry, poolVars, fetched, fileVars, aliasVars>>

\* get_full_schedule() is called.
CallGetFullSchedule ==
    /\ pc = "idle"
    /\ entry' = "get_full_schedule"
    /\ pc' = "get_full_schedule"
    /\ StartFetch("season")
    /\ UNCHANGED <<script, poolVars, fetched, result, fileVars, aliasVars>>

\* get_full_schedule returned the season's schedule.
ReturnFullSchedule ==
    /\ pc = "get_full_schedule"
    /\ FetchReturned
    /\ result' = "schedule"
    /\ pc' = "done"
    /\ EndFetch
    /\ UNCHANGED <<script, entry, poolVars, fetched, fileVars, aliasVars>>

Next ==
    \/ Attempt
    \/ Cooldown
    \/ Throttle
    \/ LegacyRequest
    \/ CallGetFantasyPlayerPool
    \/ ResolveTeams
    \/ CallGetRoster
    \/ ProcessRoster
    \/ SkipTeam
    \/ ReturnPool
    \/ Propagate
    \/ SavePositionFiles
    \/ GetFlexEligible
    \/ PrintPool
    \/ FilterCall
    \/ CallGetRosterByAbbreviation
    \/ LookupTeam
    \/ ReturnRoster
    \/ CallGetFullSchedule
    \/ ReturnFullSchedule

Spec == Init /\ [][Next]_vars

\* ---- properties ------------------------------------------------------------
All429(s) == \A i \in 1..Len(s) : s[i] = "429"

\* C1: with max attempts = 3 and a remote that answers 429 to every request,
\* make_request_with_retry issues exactly 3 requests (no fourth, no success),
\* then fails with "Max retries exceeded" (RetryExhausted), having slept at
\* least 2 x RETRY_DELAY.
C1_RetryBound ==
    (script = V1 /\ fstate # "Idle" /\ All429(resps)) =>
        /\ Len(resps) <= 3
        /\ fstate \in {"Attempting", "Waiting", "Failed"}
        /\ (fstate = "Attempting" => Len(resps) < 3)
        /\ (fstate = "Failed" =>
                /\ Len(resps) = 3
                /\ ferr = "RetryExhausted"
                /\ slept >= 2 * RETRY_DELAY)

C1_Witness ==
    script = V1 /\ fstate = "Failed" /\ Len(resps) = 3 /\ All429(resps)

\* C2 (as claimed): whenever a fetch uses up all of its attempts without a
\* success, whatever the mix of 429s and transport failures, it fails with
\* RetryExhausted.
C2_AlwaysRetryExhausted ==
    (script = V1 /\ fstate = "Failed") => ferr = "RetryExhausted"

\* C2 (amended): a fetch fails only after MAX_RETRIES attempts without a
\* success; it fails with RetryExhausted when the last attempt got a 429, and
\* with the transport error itself when the last attempt was a transport
\* failure.
C2_FailureKind ==
    (script = V1 /\ fstate = "Failed") =>
        /\ Len(resps) = MAX_RETRIES
        /\ "ok" \notin Range(resps)
        /\ (resps[MAX_RETRIES] = "429" => ferr = "RetryExhausted")
        /\ (resps[MAX_RETRIES] = "error" => ferr = "TransportError")

C2_Witness ==
    /\ script = V1 /\ fstate = "Failed" /\ ferr = "TransportError"
    /\ resps = <<"429", "error", "error">>

\* C10: Waiting is entered only after a failed attempt n < max; a failure of
\* attempt number max goes to Failed with no cooldown after it, so a call of
\* k attempts sleeps the cooldown k-1 times when it fails and at most k-1
\* times when it succeeds.
C10_StateMachine ==
    script = V1 =>
        /\ (fstate = "Waiting" => attempt + 1 < MAX_RETRIES)
        /\ (fstate = "Failed" => slept = (Len(resps) - 1) * RETRY_DELAY)
        /\ (fstate \in {"Done", "Returned"} => slept <= (Len(resps) - 1) * RETRY_DELAY)

\* C7: a request issued after a successful response is preceded by a
\* REQUEST_DELAY wait since that response.
C7_ThrottleBetweenRequests ==
    [][Len(resps') = Len(resps) + 1 => throttled]_vars

\* The team list of a pool build has been resolved.
Resolved ==
    /\ entry = "get_fantasy_player_pool"
    /\ \/ pc \in {"loop", "get_roster", "returned", "saved", "filtered"}
       \/ pc = "done" /\ result = "pool"

ScheduleTeamIds(gs) ==
    {gs[i].home.id : i \in 1..Len(gs)} \cup {gs[i].away.id : i \in 1..Len(gs)}

Involves(g, t) == g.home.id = t \/ g.away.id = t

\* The first game, in iteration order, that involves team t.
FirstGame(gs, t) ==
    CHOOSE i \in 1..Len(gs) :
        Involves(gs[i], t) /\ \A j \in 1..(i - 1) : ~Involves(gs[j], t)

FirstSide(gs, t) == IF gs[FirstGame(gs, t)].home.id = t THEN "home" ELSE "away"

\* Place of t's first appearance, home before away within a game.
FirstPos(gs, t) == 2 * FirstGame(gs, t) - (IF FirstSide(gs, t) = "home" THEN 1 ELSE 0)

\* C4: the team list has pairwise distinct team_id, one record per team of
\* the schedule, ordered by first appearance (home before away), each with the
\* opponent, home/away flag, game id and scheduled time of the first game that
\* involves the team; with no team on more than one game side it has 2G
\* records for G games.
C4_TeamList ==
    Resolved =>
        /\ \A a, b \in 1..Len(teams) : a # b => teams[a].team_id # teams[b].team_id
        /\ {teams[a].team_id : a \in 1..Len(teams)} = ScheduleTeamIds(games)
        /\ \A a, b \in 1..Len(teams) :
              a < b => FirstPos(games, teams[a].team_id) < FirstPos(games, teams[b].team_id)
        /\ \A a \in 1..Len(teams) :
              LET t == teams[a].team_id
                  g == games[FirstGame(games, t)]
                  opp == IF FirstSide(games, t) = "home" THEN g.away ELSE g.home
              IN /\ teams[a].home_away = FirstSide(games, t)
                 /\ teams[a].game_id = g.id
                 /\ teams[a].scheduled = g.scheduled
                 /\ teams[a].opponent_id = opp.id
                 /\ teams[a].opponent_name = opp.name
                 /\ teams[a].opponent_alias = opp.alias
        /\ (Cardinality(ScheduleTeamIds(games)) = 2 * Len(games)
                => Len(teams) = 2 * Len(games))

\* C6: during one pool build get_roster is never called twice with the same
\* team_id, and by the end it has been called for exactly the team ids of the
\* weekly schedule.
C6_OneRosterCallPerTeam ==
    Resolved =>
        /\ \A a, b \in 1..Len(fetched) : a # b => fetched[a] # fetched[b]
        /\ (pc \notin {"loop", "get_roster"} => Range(fetched) = ScheduleTeamIds(games))

\* The merged record of roster player `raw` of the team of appearance `app`.
ExpectedPlayer(raw, app) ==
    [id |-> raw.id, name |-> raw.name, position |-> raw.position,
     jersey |-> raw.jersey, height |-> raw.height, weight |-> raw.weight,
     birth_date |-> raw.birth_date, experience |-> raw.experience,
     college |-> raw.college, team_id |-> app.team_id, team_name |-> app.team_name,
     team_alias |-> app.team_alias, opponent_id |-> app.opponent_id,
     opponent_name |-> app.opponent_name, opponent_alias |-> app.opponent_alias,
     home_away |-> app.home_away, game_id |-> app.game_id,
     scheduled |-> app.scheduled]

\* All players of the team's roster at position pos, in roster order.
TeamPlayers(app, pos) ==
    LET ms == SelectSeq(GoodRoster(app.team_id), LAMBDA e : e.position = pos)
    IN [n \in 1..Len(ms) |-> ExpectedPlayer(ms[n], app)]

\* What the first n teams contribute to pool[pos]: nothing for a failed team,
\* all matching players for the others.
RECURSIVE ExpectedPool(_, _)
ExpectedPool(pos, n) ==
    IF n = 0 THEN <<>>
    ELSE ExpectedPool(pos, n - 1)
            \o (IF n \in failed THEN <<>> ELSE TeamPlayers(teams[n], pos))

\* C3: whatever teams fail (roster fetch or roster processing), the pool build
\* does not raise, a failed team contributes no player to any position list,
\* and every other team, also after a failed one, contributes all its matching
\* players.
C3_PartialFailure ==
    /\ Resolved =>
          /\ result \in {"none", "pool"}
          /\ failed \subseteq 1..(ti - 1)
          /\ DOMAIN pool = Range(positions)
          /\ \A pos \in DOMAIN pool : pool[pos] = ExpectedPool(pos, ti - 1)
          /\ (result = "pool" => ti = Len(teams) + 1)
    /\ (entry = "get_fantasy_player_pool" /\ result \notin {"none", "pool"})
          => fetched = <<>>

C3_Witness ==
    /\ result = "pool"
    /\ Len(teams) = 3
    /\ failed = {2}
    /\ \E pos \in DOMAIN pool : \E n \in 1..Len(pool[pos]) :
          pool[pos][n].team_id = teams[3].team_id

AppearanceFields ==
    {"team_id", "team_name", "team_alias", "opponent_id", "opponent_name",
     "opponent_alias", "home_away", "game_id", "scheduled"}

\* C5: at every point of a pool build every player under pool[pos] has
\* position pos, a requested position, and carries the team_id and the other
\* appearance fields of the appearance whose team_id was used to fetch the
\* roster the player is from (a player's id names its roster).
C5_MergedFields ==
    Resolved =>
        \A pos \in DOMAIN pool : \A n \in 1..Len(pool[pos]) :
            LET p == pool[pos][n]
            IN /\ p.position = pos
               /\ pos \in Range(positions)
               /\ \E i \in 1..Len(fetched) :
                     /\ fetched[i] = p.id[1]
                     /\ teams[i].team_id = fetched[i]
                     /\ \A k \in AppearanceFields : p[k] = teams[i][k]

C5_Witness ==
    /\ pc = "get_roster"
    /\ \E pos \in DOMAIN pool : \E n, m \in 1..Len(pool[pos]) :
          pool[pos][n].team_id # pool[pos][m].team_id

\* get_team_id_by_abbreviation has run in a call of get_roster_by_abbreviation.
LookedUp ==
    /\ entry = "get_roster_by_abbreviation"
    /\ fetched # <<>> \/ result = "ValueError"

\* Two strings that differ in case only.
CaseVariants(a, b) ==
    Len(a) = Len(b) /\ \A i \in 1..Len(a) : UpperChar(a[i]) = UpperChar(b[i])

MatchingTeams(tl, abbr) == {i \in 1..Len(tl) : CaseVariants(tl[i].alias, abbr)}

FirstMatch(tl, abbr) ==
    CHOOSE i \in MatchingTeams(tl, abbr) : \A j \in MatchingTeams(tl, abbr) : i <= j

\* The id every case variant of the abbreviation resolves to is the id of the
\* first team whose alias matches.
CaseInsensitiveFirstMatch ==
    /\ \A b \in Abbreviations :
          CaseVariants(b, abbreviation)
              => get_team_id_by_abbreviation(teams_data, b).value = team_id
    /\ (MatchingTeams(teams_data, abbreviation) # {}
          => team_id = teams_data[FirstMatch(teams_data, abbreviation)].id)

\* C8 (as claimed): the lookup is case-insensitive and returns the id of the
\* first matching team; when no team matches, the lookup fails with
\* TeamNotFound.
C8_LookupRaises ==
    LookedUp =>
        /\ CaseInsensitiveFirstMatch
        /\ (MatchingTeams(teams_data, abbreviation) = {}
              => get_team_id_by_abbreviation(teams_data, abbreviation).kind = "raise")

\* C8 (amended): the lookup is case-insensitive and returns the id of the
\* first matching team; when no team matches, get_team_id_by_abbreviation
\* returns None without raising, and it is get_roster_by_abbreviation that
\* fails, with ValueError, before any roster request.
C8_Lookup ==
    LookedUp =>
        /\ CaseInsensitiveFirstMatch
        /\ (MatchingTeams(teams_data, abbreviation) = {}
              => /\ get_team_id_by_abbreviation(teams_data, abbreviation).kind = "return"
                 /\ team_id = "None"
                 /\ result = "ValueError"
                 /\ pc = "done"
                 /\ fetched = <<>>)
        /\ (result = "ValueError" => MatchingTeams(teams_data, abbreviation) = {})

C8_Witness ==
    /\ LookedUp
    /\ abbreviation = <<"n", "e">>
    /\ Len(teams_data) = 2
    /\ teams_data[1].alias = <<"K", "C">>
    /\ teams_data[2].alias = <<"N", "E">>
    /\ team_id = teams_data[2].id
    /\ fetched = <<team_id>>

\* pool[p], or nothing when the pool has no such position.
PoolList(p) == IF p \in DOMAIN pool THEN pool[p] ELSE <<>>

\* The lists of the positions of ps, one after the other.
RECURSIVE ConcatLists(_)
ConcatLists(ps) ==
    IF ps = <<>> THEN <<>> ELSE PoolList(Head(ps)) \o ConcatLists(Tail(ps))

\* C9: the FLEX list is pool["RB"], then pool["WR"], then pool["TE"], each in
\* its stored order, nothing added, dropped or reordered; and
\* get_players_by_position_filter(pool, positions) is the concatenation of
\* pool[p] for p in positions, in the given order.
C9_FlexConcat ==
    /\ (script = V1 /\ entry = "get_fantasy_player_pool" /\ result = "pool"
            /\ pc \in {"done", "filtered"})
          => flex = PoolList("RB") \o PoolList("WR") \o PoolList("TE")
    /\ pc = "filtered" => filtered = ConcatLists(filterArg)

C9_Witness ==
    /\ pc = "filtered"
    /\ filterArg = <<"WR", "RB">>
    /\ Len(PoolList("RB")) >= 2
    /\ Len(PoolList("WR")) >= 2
    /\ Len(PoolList("TE")) >= 2
    /\ Len(flex) = Len(PoolList("RB")) + Len(PoolList("WR")) + Len(PoolList("TE"))

\* The places in the team sequence whose appearance a pooled player carries.
AppearanceIndexes(p) ==
    {i \in 1..Len(teams) : \A k \in AppearanceFields : p[k] = teams[i][k]}

\* C11: each position list is ordered by team-processing order and, within
\* one team, by roster order: of two players x before y in pool[pos], x's
\* team comes earlier in the team sequence the build processes (the
\* deduplicated sequence in fantasy-v1.py), or they are of the same team and
\* x comes earlier in its roster (a player's id carries its roster index).
C11_PoolOrder ==
    Resolved =>
        \A pos \in DOMAIN pool : \A n, m \in 1..Len(pool[pos]) :
            n < m =>
                LET x == pool[pos][n]
                    y == pool[pos][m]
                IN \E i \in AppearanceIndexes(x) : \E j \in AppearanceIndexes(y) :
                      \/ i < j
                      \/ i = j /\ x.id[1] = y.id[1] /\ x.id[2] < y.id[2]

C11_Witness ==
    /\ script = V1
    /\ result = "pool"
    /\ \E n, m, l \in 1..Len(PoolList("RB")) :
          /\ n < m /\ m < l
          /\ pool["RB"][n].team_id # pool["RB"][m].team_id
          /\ pool["RB"][m].team_id = pool["RB"][l].team_id

FetchErrors == {"RetryExhausted", "TransportError"}

\* The weekly-schedule fetch of a pool build has just failed.
ScheduleFetchFailed ==
    /\ entry = "get_fantasy_player_pool"
    /\ pc = "get_weekly_schedule"
    /\ fstate = "Failed"

\* The pool build ended by raising.
PoolBuildRaised ==
    /\ entry = "get_fantasy_player_pool"
    /\ pc = "done"
    /\ result \in FetchErrors

\* C12: the skip policy covers roster fetches only. When the weekly-schedule
\* fetch fails, no roster has been fetched, the next thing that happens is
\* that the pool build raises that very failure, and then nothing more
\* happens: no roster fetch is issued and no pool, not even an empty one, is
\* returned.
C12_ScheduleFailureRaises ==
    /\ [](ScheduleFetchFailed =>
            /\ ferr \in FetchErrors
            /\ fetched = <<>>
            /\ result = "none")
    /\ [](PoolBuildRaised =>
            /\ fetched = <<>>
            /\ Len(teams) = 0
            /\ DOMAIN pool = {}
            /\ fstate = "Idle"
            /\ ~ENABLED Next)
    /\ [][ScheduleFetchFailed => (PoolBuildRaised' /\ result' = ferr)]_vars

C12_Witness ==
    /\ script = V1
    /\ PoolBuildRaised
    /\ result = "TransportError"
====
